---- MODULE Spec2Model ----
(***************************************************************************)
(* Model of the rekby/mbr library: the 512-byte MBR sector image, its four *)
(* partition-entry views, the validator (Check) and the protective-MBR     *)
(* builder (MakeProtective).                                               *)
(*                                                                         *)
(* TLC integers are 32-bit signed, so Go's uint32 and uint64 values are    *)
(* kept as little-endian tuples of 16-bit limbs: a uint32 is <<l0, l1>>    *)
(* and a uint64 is <<l0, l1, l2, l3>>.  All arithmetic wraps at the width  *)
(* of the operands, as Go's unsigned arithmetic does.                      *)
(***************************************************************************)
EXTENDS Integers, Sequences, FiniteSets, TLC

VARIABLES this, parts, call, err, ret

vars == <<this, parts, call, err, ret>>

\* a nil error
Nil == "nil"
\* a nil *MBR (no table built yet) and a nil *MBRPartition
NilMBR == [bytes |-> <<>>]
NilPartition == [Num |-> 0, bytes |-> [lo |-> 0, hi |-> 0]]

(***************************************************************************)
(* Unsigned fixed-width arithmetic on limb tuples.                         *)
(***************************************************************************)
\* x + y, wrapping at the width of x (Go unsigned addition)
AddLimbs(x, y) ==
    LET n == Len(x)
        c[i \in 0..n] == IF i = 0 THEN 0 ELSE (x[i] + y[i] + c[i-1]) \div 65536
    IN  [i \in 1..n |-> (x[i] + y[i] + c[i-1]) % 65536]

\* x - y, wrapping at the width of x (Go unsigned subtraction)
SubLimbs(x, y) ==
    LET n == Len(x)
        b[i \in 0..n] == IF i = 0 THEN 0
                         ELSE IF x[i] - y[i] - b[i-1] < 0 THEN 1 ELSE 0
    IN  [i \in 1..n |-> (x[i] - y[i] - b[i-1] + 65536) % 65536]

RECURSIVE GtFrom(_, _, _)
GtFrom(x, y, i) ==
    IF i = 0 THEN FALSE
    ELSE IF x[i] # y[i] THEN x[i] > y[i]
    ELSE GtFrom(x, y, i - 1)

\* x > y for two unsigned values of the same width
GtLimbs(x, y) == GtFrom(x, y, Len(x))

\* remainder carried into limb i during the long division of x by d (0 < d < 2^15)
RemLimbs(x, d) ==
    LET n == Len(x)
        r[i \in 1..(n+1)] == IF i = n + 1 THEN 0 ELSE (r[i+1] * 65536 + x[i]) % d
    IN  r

\* x / d (Go unsigned division) for a divisor 0 < d < 2^15
DivLimbs(x, d) ==
    LET r == RemLimbs(x, d)
    IN  [i \in 1..Len(x) |-> (r[i+1] * 65536 + x[i]) \div d]

\* x % d (Go unsigned remainder) for a divisor 0 < d < 2^15, as an integer
ModLimbs(x, d) == RemLimbs(x, d)[1]

\* conversions
uint32FromByte(b) == <<b, 0>>
uint64From32(x) == <<x[1], x[2], 0, 0>>
uint32From64(x) == <<x[1], x[2]>>
byte(x) == x[1] % 256

\* val << k and val >> k on a uint32, k in 0..31
Shl32(x, k) ==
    LET y == IF k >= 16 THEN <<0, x[1]>> ELSE x
        j == IF k >= 16 THEN k - 16 ELSE k
    IN  <<(y[1] * 2^j) % 65536, (y[2] * 2^j + (y[1] * 2^j) \div 65536) % 65536>>

Shr32(x, k) ==
    LET y == IF k >= 16 THEN <<x[2], 0>> ELSE x
        j == IF k >= 16 THEN k - 16 ELSE k
    IN  <<(y[1] \div 2^j) + (y[2] % 2^j) * 2^(16 - j), y[2] \div 2^j>>

\* val & 0xFF on a uint32
And0xFF(x) == <<x[1] % 256, 0>>

(***************************************************************************)
(* Package constants and error values.                                     *)
(***************************************************************************)
ErrorBadMbrSign == "MBR: Bad signature"
ErrorPartitionsIntersection == "MBR: Partitions have intersections"
ErrorPartitionLastSectorHigh == "MBR: Last sector have very high number"
ErrorPartitionBootFlag == "MBR: Bad value in boot flag"
ErrorDiskSizeNotEvenSectors == "MBR: Disk size is not evenly divisible by sector size"
ErrorInvalidProtectiveType == "Invalid value for ProtectiveType"

PART_EMPTY == 0
PART_LINUX_SWAP_SOLARIS == 130
PART_LVM == 142
PART_HYBRID_GPT == 237
PART_GPT == 238

DiskSize == 1
MaxSize == 2
DefaultProtective == 0

mbrFirstPartEntryOffset == 446
mbrPartEntrySize == 16
mbrSize == 512
mbrSignOffset == 510

partitionBootableOffset == 0
partitionTypeOffset == 4
partitionLBAStartOffset == 8
partitionLBALengthOffset == 12

partitionNumFirst == 1
partitionNumLast == 4
partitionBootableValue == 128
partitionNonBootableValue == 0

(***************************************************************************)
(* Byte slices.  The table owns one 512-byte array b (a function on        *)
(* 0..511); a slice is a window [lo, hi) of that array, so every slice of  *)
(* the same table aliases the same bytes.                                  *)
(***************************************************************************)
SubSlice(s, i, j) == [lo |-> s.lo + i, hi |-> s.lo + j]

\* make([]byte, mbrSize): a zeroed array and the slice covering it
MakeBytes == [i \in 0..(mbrSize - 1) |-> 0]
WholeSlice == [lo |-> 0, hi |-> mbrSize]

(***************************************************************************)
(* BinaryCodec                                                             *)
(***************************************************************************)
\* faulty variant: the four bytes stored most significant first
writeBigEndianUINT32(b, buf, val) ==
    [b EXCEPT ![buf.lo + 3] = byte(And0xFF(val)),
              ![buf.lo + 2] = byte(And0xFF(Shr32(val, 8))),
              ![buf.lo + 1] = byte(And0xFF(Shr32(val, 16))),
              ![buf.lo]     = byte(And0xFF(Shr32(val, 24)))]

writeLittleEndianUINT32(b, buf, val) ==
    [b EXCEPT ![buf.lo]     = byte(And0xFF(val)),
              ![buf.lo + 1] = byte(And0xFF(Shr32(val, 8))),
              ![buf.lo + 2] = byte(And0xFF(Shr32(val, 16))),
              ![buf.lo + 3] = byte(And0xFF(Shr32(val, 24)))]

readLittleEndianUINT32(b, buf) ==
    AddLimbs(AddLimbs(AddLimbs(uint32FromByte(b[buf.lo]),
                               Shl32(uint32FromByte(b[buf.lo + 1]), 8)),
                      Shl32(uint32FromByte(b[buf.lo + 2]), 16)),
             Shl32(uint32FromByte(b[buf.lo + 3]), 24))

(***************************************************************************)
(* PartitionEntry: a view is the entry number and a 16-byte slice.         *)
(***************************************************************************)
GetPartition(num) ==
    IF num < partitionNumFirst \/ num > partitionNumLast THEN NilPartition
    ELSE LET partStart == mbrFirstPartEntryOffset + (num - 1) * mbrPartEntrySize
         IN  [Num |-> num,
              bytes |-> SubSlice(WholeSlice, partStart, partStart + mbrPartEntrySize)]

GetLBAStart(b, p) ==
    readLittleEndianUINT32(b, SubSlice(p.bytes, partitionLBAStartOffset,
                                       partitionLBAStartOffset + 4))

GetLBALen(b, p) ==
    readLittleEndianUINT32(b, SubSlice(p.bytes, partitionLBALengthOffset,
                                       partitionLBALengthOffset + 4))

\* the outcome of the call: a panic, or the value returned
GetLBALast(b, p) ==
    LET last == SubLimbs(AddLimbs(uint64From32(GetLBAStart(b, p)),
                                  uint64From32(GetLBALen(b, p))),
                         <<1, 0, 0, 0>>)
    IN  IF GtLimbs(last, <<65535, 65535, 0, 0>>)
        THEN [panic |-> TRUE, value |-> <<0, 0>>]
        ELSE [panic |-> FALSE, value |-> uint32From64(last)]

GetType(b, p) == b[p.bytes.lo + partitionTypeOffset]

SetType(b, p, t) == [b EXCEPT ![p.bytes.lo + partitionTypeOffset] = t]

IsEmpty(b, p) == GetType(b, p) = PART_EMPTY

SetLBAStart(b, p, startSector) ==
    writeLittleEndianUINT32(b, SubSlice(p.bytes, partitionLBAStartOffset,
                                        partitionLBAStartOffset + 4), startSector)

SetLBALen(b, p, sectorCount) ==
    writeLittleEndianUINT32(b, SubSlice(p.bytes, partitionLBALengthOffset,
                                        partitionLBALengthOffset + 4), sectorCount)

SetBootable(b, p, bootable) ==
    IF bootable
    THEN [b EXCEPT ![p.bytes.lo + partitionBootableOffset] = partitionBootableValue]
    ELSE [b EXCEPT ![p.bytes.lo + partitionBootableOffset] = partitionNonBootableValue]

IsBootable(b, p) == b[p.bytes.lo + partitionBootableOffset] = partitionBootableValue

(***************************************************************************)
(* PartitionTable and Validator                                            *)
(***************************************************************************)
\* the inner loop of Check from r on: does entry l start inside another entry
RECURSIVE CheckIntersections(_, _, _)
CheckIntersections(b, l, r) ==
    IF r > partitionNumLast THEN FALSE
    ELSE IF l = r THEN CheckIntersections(b, l, r + 1)
    ELSE LET lp == GetPartition(l)
             rp == GetPartition(r)
         IN  IF IsEmpty(b, rp) THEN CheckIntersections(b, l, r + 1)
             ELSE IF /\ GtLimbs(GetLBAStart(b, lp), GetLBAStart(b, rp))
                     /\ GtLimbs(AddLimbs(uint64From32(GetLBAStart(b, rp)),
                                         uint64From32(GetLBALen(b, rp))),
                                uint64From32(GetLBAStart(b, lp)))
                  THEN TRUE
                  ELSE CheckIntersections(b, l, r + 1)

\* faulty variant: the protective exception granted to any entry, not only entry 1
RECURSIVE CheckPartitionsAnyEntry(_, _)
CheckPartitionsAnyEntry(b, l) ==
    IF l > partitionNumLast THEN Nil
    ELSE LET lp == GetPartition(l)
             maxLen == <<65535, 65535, 0, 0>>
             last == AddLimbs(uint64From32(GetLBAStart(b, lp)),
                              uint64From32(GetLBALen(b, lp)))
         IN  IF IsEmpty(b, lp) THEN CheckPartitionsAnyEntry(b, l + 1)
             ELSE IF /\ GtLimbs(last, maxLen)
                     /\ ~(/\ last = AddLimbs(maxLen, <<1, 0, 0, 0>>)
                          /\ GetType(b, lp) = PART_GPT)
                  THEN ErrorPartitionLastSectorHigh
             ELSE IF /\ b[lp.bytes.lo + partitionBootableOffset] # partitionBootableValue
                     /\ b[lp.bytes.lo + partitionBootableOffset] # partitionNonBootableValue
                  THEN ErrorPartitionBootFlag
             ELSE IF CheckIntersections(b, l, partitionNumFirst)
                  THEN ErrorPartitionsIntersection
             ELSE CheckPartitionsAnyEntry(b, l + 1)

\* the outer loop of Check from entry l on
RECURSIVE CheckPartitions(_, _)
CheckPartitions(b, l) ==
    IF l > partitionNumLast THEN Nil
    ELSE LET lp == GetPartition(l)
             maxLen == <<65535, 65535, 0, 0>>
             last == AddLimbs(uint64From32(GetLBAStart(b, lp)),
                              uint64From32(GetLBALen(b, lp)))
         IN  IF IsEmpty(b, lp) THEN CheckPartitions(b, l + 1)
             ELSE IF /\ GtLimbs(last, maxLen)
                     /\ ~(/\ l = partitionNumFirst
                          /\ last = AddLimbs(maxLen, <<1, 0, 0, 0>>)
                          /\ GetType(b, lp) = PART_GPT)
                  THEN ErrorPartitionLastSectorHigh
             ELSE IF /\ b[lp.bytes.lo + partitionBootableOffset] # partitionBootableValue
                     /\ b[lp.bytes.lo + partitionBootableOffset] # partitionNonBootableValue
                  THEN ErrorPartitionBootFlag
             ELSE IF CheckIntersections(b, l, partitionNumFirst)
                  THEN ErrorPartitionsIntersection
             ELSE CheckPartitions(b, l + 1)

Check(b) ==
    IF b[mbrSignOffset] # 85 \/ b[mbrSignOffset + 1] # 170
    THEN ErrorBadMbrSign
    ELSE CheckPartitions(b, partitionNumFirst)

\* faulty variant: both signature bytes written at the same offset
FixSignatureSameOffset(b) == [b EXCEPT ![mbrSignOffset] = 170]

FixSignature(b) == [b EXCEPT ![mbrSignOffset] = 85, ![mbrSignOffset + 1] = 170]

GetAllPartitions == [i \in 1..4 |-> GetPartition(i)]

IsGPT(b) ==
    \E i \in DOMAIN GetAllPartitions :
        \/ GetType(b, GetAllPartitions[i]) = PART_GPT
        \/ GetType(b, GetAllPartitions[i]) = PART_HYBRID_GPT

(***************************************************************************)
(* ProtectiveMBRBuilder                                                    *)
(***************************************************************************)
\* the loop that zeroes the entries pnum..4
RECURSIVE ZeroPartitions(_, _)
ZeroPartitions(b, pnum) ==
    IF pnum > 4 THEN b
    ELSE LET pt == GetPartition(pnum)
             b1 == SetType(b, pt, PART_EMPTY)
             b2 == SetLBAStart(b1, pt, <<0, 0>>)
             b3 == SetLBALen(b2, pt, <<0, 0>>)
             b4 == [b3 EXCEPT ![pt.bytes.lo + partitionBootableOffset] =
                                   partitionNonBootableValue]
         IN  ZeroPartitions(b4, pnum + 1)

\* the length MakeProtective gives entry 1 (pType already known to be valid)
ProtectiveLBALen(sectorSize, diskSize, pType, ptLBAStart) ==
    IF pType = DiskSize
    THEN LET max == <<65535, 65535, 0, 0>>
             actual == SubLimbs(DivLimbs(diskSize, sectorSize), uint64From32(ptLBAStart))
         IN  IF GtLimbs(actual, max) THEN uint32From64(max) ELSE uint32From64(actual)
    ELSE <<65535, 65535>>

\* faulty variant: entries 2-4 are left as they were
MakeProtectiveKeepOthers(b, sectorSize, diskSize, pType) ==
    IF ModLimbs(diskSize, sectorSize) # 0
    THEN [bytes |-> b, err |-> ErrorDiskSizeNotEvenSectors]
    ELSE LET b0 == FixSignature(b)
             ptLBAStart == <<1, 0>>
         IN  IF pType # DiskSize /\ pType # MaxSize /\ pType # DefaultProtective
             THEN [bytes |-> b0, err |-> ErrorInvalidProtectiveType]
             ELSE LET pt == GetPartition(1)
                      b1 == SetType(b0, pt, PART_GPT)
                      b2 == SetLBAStart(b1, pt, ptLBAStart)
                      b3 == SetLBALen(b2, pt, ProtectiveLBALen(sectorSize, diskSize,
                                                               pType, ptLBAStart))
                      b4 == [b3 EXCEPT ![pt.bytes.lo + partitionBootableOffset] =
                                            partitionNonBootableValue]
                  IN  [bytes |-> b4, err |-> Nil]

\* faulty variant: the signature is written before the disk size is examined
MakeProtectiveFixFirst(b, sectorSize, diskSize, pType) ==
    LET b0 == FixSignature(b)
        ptLBAStart == <<1, 0>>
    IN  IF ModLimbs(diskSize, sectorSize) # 0
        THEN [bytes |-> b0, err |-> ErrorDiskSizeNotEvenSectors]
        ELSE IF pType # DiskSize /\ pType # MaxSize /\ pType # DefaultProtective
             THEN [bytes |-> b0, err |-> ErrorInvalidProtectiveType]
             ELSE LET pt == GetPartition(1)
                      b1 == SetType(b0, pt, PART_GPT)
                      b2 == SetLBAStart(b1, pt, ptLBAStart)
                      b3 == SetLBALen(b2, pt, ProtectiveLBALen(sectorSize, diskSize,
                                                               pType, ptLBAStart))
                      b4 == [b3 EXCEPT ![pt.bytes.lo + partitionBootableOffset] =
                                            partitionNonBootableValue]
                  IN  [bytes |-> ZeroPartitions(b4, 2), err |-> Nil]

\* faulty variant: the protective type is examined only after the entries are written
MakeProtectiveLateTypeCheck(b, sectorSize, diskSize, pType) ==
    IF ModLimbs(diskSize, sectorSize) # 0
    THEN [bytes |-> b, err |-> ErrorDiskSizeNotEvenSectors]
    ELSE LET b0 == FixSignature(b)
             ptLBAStart == <<1, 0>>
             pt == GetPartition(1)
             b1 == SetType(b0, pt, PART_GPT)
             b2 == SetLBAStart(b1, pt, ptLBAStart)
             b3 == SetLBALen(b2, pt, ProtectiveLBALen(sectorSize, diskSize,
                                                      pType, ptLBAStart))
             b4 == [b3 EXCEPT ![pt.bytes.lo + partitionBootableOffset] =
                                   partitionNonBootableValue]
         IN  IF pType # DiskSize /\ pType # MaxSize /\ pType # DefaultProtective
             THEN [bytes |-> ZeroPartitions(b4, 2), err |-> ErrorInvalidProtectiveType]
             ELSE [bytes |-> ZeroPartitions(b4, 2), err |-> Nil]

\* the table and the error MakeProtective leaves; sectorSize is an int in 1..32767
MakeProtective(b, sectorSize, diskSize, pType) ==
    IF ModLimbs(diskSize, sectorSize) # 0
    THEN [bytes |-> b, err |-> ErrorDiskSizeNotEvenSectors]
    ELSE LET b0 == FixSignature(b)
             ptLBAStart == <<1, 0>>
         IN  IF pType # DiskSize /\ pType # MaxSize /\ pType # DefaultProtective
             THEN [bytes |-> b0, err |-> ErrorInvalidProtectiveType]
             ELSE LET pt == GetPartition(1)
                      b1 == SetType(b0, pt, PART_GPT)
                      b2 == SetLBAStart(b1, pt, ptLBAStart)
                      b3 == SetLBALen(b2, pt, ProtectiveLBALen(sectorSize, diskSize,
                                                               pType, ptLBAStart))
                      b4 == [b3 EXCEPT ![pt.bytes.lo + partitionBootableOffset] =
                                            partitionNonBootableValue]
                  IN  [bytes |-> ZeroPartitions(b4, 2), err |-> Nil]

(***************************************************************************)
(* Inputs: disk images, reader outcomes and MakeProtective arguments.      *)
(***************************************************************************)
\* the uint32 / uint64 with value n, for 0 <= n < 2^31
U32(n) == <<n % 65536, n \div 65536>>
U64(n) == <<n % 65536, n \div 65536, 0, 0>>

\* x * k, wrapping at the width of x, for a factor 0 <= k < 2^15
MulLimbs(x, k) ==
    LET n == Len(x)
        c[i \in 0..n] == IF i = 0 THEN 0 ELSE (x[i] * k + c[i-1]) \div 65536
    IN  [i \in 1..n |-> (x[i] * k + c[i-1]) % 65536]

\* the 16 bytes of an entry on disk; the CHS fields hold chs
EntryBytes(e, chs) ==
    <<e.boot, chs, chs, chs, e.type, chs, chs, chs,
      e.start[1] % 256, e.start[1] \div 256, e.start[2] % 256, e.start[2] \div 256,
      e.len[1] % 256, e.len[1] \div 256, e.len[2] % 256, e.len[2] \div 256>>

Entry(boot, type, start, len) == [boot |-> boot, type |-> type, start |-> start, len |-> len]

EmptyEntry == Entry(0, PART_EMPTY, <<0, 0>>, <<0, 0>>)

EntryKinds ==
    { EmptyEntry,
      Entry(128, 131, U32(100), U32(50)),                \* [100,150), bootable
      Entry(0, 131, U32(120), U32(10)),                  \* nested in [100,150)
      Entry(0, PART_LVM, U32(150), U32(50)),             \* adjacent to [100,150)
      Entry(0, PART_LINUX_SWAP_SOLARIS, U32(100), U32(20)), \* same start as [100,150)
      Entry(0, 131, U32(0), U32(0)),                     \* non-empty, start 0, length 0
      Entry(0, 131, U32(120), U32(0)),                   \* zero length inside [100,150)
      Entry(1, 131, U32(300), U32(5)),                   \* bad boot flag
      Entry(0, PART_GPT, U32(1), <<65535, 65535>>),      \* protective: sum = 2^32
      Entry(0, PART_HYBRID_GPT, U32(1), <<65535, 65535>>),
      Entry(0, PART_GPT, U32(2), <<65535, 65535>>),      \* sum = 2^32 + 1
      Entry(0, 131, <<65535, 65535>>, U32(0)),           \* sum = 2^32 - 1
      Entry(255, PART_EMPTY, <<65535, 65535>>, <<65535, 65535>>) } \* empty, garbage fields

\* the table with entries a and c in slots i and j and the other slots empty
Layout(i, j, a, c) == [k \in 1..4 |-> IF k = i THEN a ELSE IF k = j THEN c ELSE EmptyEntry]

Layouts ==
    { Layout(s[1], s[2], a, c) : s \in {<<1, 2>>, <<3, 4>>}, a \in EntryKinds, c \in EntryKinds }

\* a few tables for the calls that overwrite or ignore the entries
FewLayouts ==
    { Layout(1, 2, a, c) :
        a \in { EmptyEntry, Entry(128, 131, U32(100), U32(50)),
                Entry(0, PART_GPT, U32(1), <<65535, 65535>>) },
        c \in { EmptyEntry, Entry(1, 131, U32(120), U32(10)),
                Entry(255, PART_HYBRID_GPT, <<65535, 65535>>, <<65535, 65535>>) } }

Fills == {165}
BadSignatures == {<<0, 0>>, <<170, 85>>, <<85, 0>>}

Image(fill, lay, sig) ==
    [i \in 0..511 |->
        IF i < 446 THEN fill
        ELSE IF i < 510 THEN EntryBytes(lay[(i - 446) \div 16 + 1], fill)[((i - 446) % 16) + 1]
        ELSE sig[i - 509]]

Sources ==
    { Image(f, lay, <<85, 170>>) : f \in Fills, lay \in Layouts }
    \cup { Image(f, lay, sig) : f \in Fills, lay \in FewLayouts, sig \in BadSignatures }

ProtectiveSources ==
    { Image(f, lay, sig) : f \in Fills, lay \in FewLayouts, sig \in {<<85, 170>>, <<0, 0>>} }

ViewSources == { Image(f, Layout(1, 2, EmptyEntry, EmptyEntry), <<85, 170>>) : f \in Fills }

\* what one call of the reader can report: a count 0..512 and an error or nil
ReadCounts == {0, 100, 511, 512}
ReadErrors == {Nil, "EOF"}

SectorSizes == {512, 4096}
SectorCounts ==
    { U64(0), U64(1), U64(1000000), <<65535, 65535, 0, 0>>, <<0, 0, 1, 0>>, <<1, 0, 1, 0>> }
DiskSizes ==
    { MulLimbs(c, 512) : c \in SectorCounts } \cup { U64(1000) }
ProtectiveTypes == {DefaultProtective, DiskSize, MaxSize, 3}

\* the values written through views: 0x04030201 and 0xFFFFFFFF
SectorValues == { <<513, 1027>>, <<65535, 65535>> }

\* the entry numbers asked of GetPartition: the first and the last entry and the
\* two numbers just outside the range
ViewNums == {partitionNumFirst - 1, partitionNumFirst, partitionNumLast, partitionNumLast + 1}

\* how many views the caller obtains
MaxViews == 2

(***************************************************************************)
(* The state machine: one table object, built by Read, and the calls made  *)
(* on it.  call, err and ret record the last call and what it returned.    *)
(***************************************************************************)
Called(name, args) == [name |-> name, args |-> args]

Init ==
    /\ this = NilMBR
    /\ parts = <<>>
    /\ call = Called("none", <<>>)
    /\ err = Nil
    /\ ret = Nil

\* disk.Read(p) on a source holding src that delivers n bytes into p
ReaderRead(b, src, n) == [i \in 0..(mbrSize - 1) |-> IF i < n THEN src[i] ELSE b[i]]

\* Read(disk): the table returned and the error returned
Read(src, n, e) ==
    LET b == ReaderRead(MakeBytes, src, n)
    IN  IF e # Nil THEN [this |-> [bytes |-> b], err |-> e]
        ELSE [this |-> [bytes |-> b], err |-> Check(b)]

CallRead(src, n, e) ==
    /\ this = NilMBR
    /\ this' = Read(src, n, e).this
    /\ err' = Read(src, n, e).err
    /\ call' = Called("Read", <<n, e>>)
    /\ ret' = Nil
    /\ UNCHANGED parts

CallCheck ==
    /\ this # NilMBR
    /\ err' = Check(this.bytes)
    /\ call' = Called("Check", <<>>)
    /\ ret' = Nil
    /\ UNCHANGED <<this, parts>>

CallFixSignature ==
    /\ this # NilMBR
    /\ this' = [this EXCEPT !.bytes = FixSignature(this.bytes)]
    /\ call' = Called("FixSignature", <<>>)
    /\ err' = Nil
    /\ ret' = Nil
    /\ UNCHANGED parts

CallIsGPT ==
    /\ this # NilMBR
    /\ ret' = IsGPT(this.bytes)
    /\ call' = Called("IsGPT", <<>>)
    /\ err' = Nil
    /\ UNCHANGED <<this, parts>>

CallMakeProtective(sectorSize, diskSize, pType) ==
    /\ this # NilMBR
    /\ this' = [this EXCEPT !.bytes = MakeProtective(this.bytes, sectorSize, diskSize, pType).bytes]
    /\ err' = MakeProtective(this.bytes, sectorSize, diskSize, pType).err
    /\ call' = Called("MakeProtective", <<sectorSize, diskSize, pType>>)
    /\ ret' = Nil
    /\ UNCHANGED parts

\* p.GetLBALast() through the view p
CallGetLBALast(p) ==
    /\ this # NilMBR
    /\ p # NilPartition
    /\ ret' = GetLBALast(this.bytes, p)
    /\ call' = Called("GetLBALast", <<p.Num>>)
    /\ err' = Nil
    /\ UNCHANGED <<this, parts>>

\* p := this.GetPartition(num); the caller keeps every view it obtained
CallGetPartition(num) ==
    /\ this # NilMBR
    /\ Len(parts) < MaxViews
    /\ ret' = GetPartition(num)
    /\ parts' = IF GetPartition(num) = NilPartition THEN parts
                ELSE Append(parts, GetPartition(num))
    /\ call' = Called("GetPartition", <<num>>)
    /\ err' = Nil
    /\ UNCHANGED this

\* parts[i].SetLBAStart(v)
CallSetLBAStart(i, v) ==
    /\ this # NilMBR
    /\ this' = [this EXCEPT !.bytes = SetLBAStart(this.bytes, parts[i], v)]
    /\ call' = Called("SetLBAStart", <<i, v>>)
    /\ err' = Nil
    /\ ret' = Nil
    /\ UNCHANGED parts

\* parts[i].SetLBALen(v)
CallSetLBALen(i, v) ==
    /\ this # NilMBR
    /\ this' = [this EXCEPT !.bytes = SetLBALen(this.bytes, parts[i], v)]
    /\ call' = Called("SetLBALen", <<i, v>>)
    /\ err' = Nil
    /\ ret' = Nil
    /\ UNCHANGED parts

\* parts[i].GetLBAStart()
CallGetLBAStart(i) ==
    /\ this # NilMBR
    /\ ret' = GetLBAStart(this.bytes, parts[i])
    /\ call' = Called("GetLBAStart", <<i>>)
    /\ err' = Nil
    /\ UNCHANGED <<this, parts>>

\* parts[i].GetLBALen()
CallGetLBALen(i) ==
    /\ this # NilMBR
    /\ ret' = GetLBALen(this.bytes, parts[i])
    /\ call' = Called("GetLBALen", <<i>>)
    /\ err' = Nil
    /\ UNCHANGED <<this, parts>>

(***************************************************************************)
(* Spec: a table read from any disk image, validated, repaired, queried.   *)
(***************************************************************************)
Next ==
    \/ \E src \in Sources, n \in ReadCounts, e \in ReadErrors : CallRead(src, n, e)
    \/ CallCheck
    \/ CallFixSignature
    \/ CallIsGPT
    \/ \E num \in partitionNumFirst..partitionNumLast : CallGetLBALast(GetPartition(num))

Spec == Init /\ [][Next]_vars

(***************************************************************************)
(* SpecProtective: a table rebuilt as a protective MBR.                    *)
(***************************************************************************)
NextProtective ==
    \/ \E src \in ProtectiveSources : CallRead(src, mbrSize, Nil)
    \/ \E ss \in SectorSizes, ds \in DiskSizes, pt \in ProtectiveTypes :
           CallMakeProtective(ss, ds, pt)
    \/ CallCheck
    \/ CallIsGPT

SpecProtective == Init /\ [][NextProtective]_vars

(***************************************************************************)
(* SpecView: entry views obtained from a table and used to edit it.        *)
(***************************************************************************)
NextView ==
    \/ \E src \in ViewSources : CallRead(src, mbrSize, Nil)
    \/ \E num \in ViewNums : CallGetPartition(num)
    \/ \E i \in DOMAIN parts, v \in SectorValues : CallSetLBAStart(i, v)
    \/ \E i \in DOMAIN parts, v \in SectorValues : CallSetLBALen(i, v)
    \/ \E i \in DOMAIN parts : CallGetLBAStart(i)
    \/ \E i \in DOMAIN parts : CallGetLBALen(i)

SpecView == Init /\ [][NextView]_vars

(***************************************************************************)
(* The layout and the arithmetic the properties are stated in, read        *)
(* directly off the byte image: entry n occupies 446 + 16*(n-1) .. +15.    *)
(***************************************************************************)
EntryOffset(n) == 446 + 16 * (n - 1)
EntryBoot(b, n) == b[EntryOffset(n)]
EntryType(b, n) == b[EntryOffset(n) + 4]
\* the little-endian 32-bit field at offset off, widened to three limbs so sums never wrap
Field(b, off) == <<b[off] + 256 * b[off + 1], b[off + 2] + 256 * b[off + 3], 0>>
EntryStart(b, n) == Field(b, EntryOffset(n) + 8)
EntryLen(b, n) == Field(b, EntryOffset(n) + 12)
\* start + length, exact
EntryEnd(b, n) == AddLimbs(EntryStart(b, n), EntryLen(b, n))
\* byte i (0..3) of the 32-bit value v: (v div 256^i) mod 256
ByteOf(v, i) == IF i < 2 THEN (v[1] \div 256^i) % 256 ELSE (v[2] \div 256^(i - 2)) % 256
Wide(v) == <<v[1], v[2], 0>>
TwoTo32 == <<0, 0, 1>>
Max32 == <<65535, 65535, 0>>
One == <<1, 0, 0>>
Entries == 1..4
LastCall(name) == call.name = name

(***************************************************************************)
(* Properties                                                              *)
(***************************************************************************)

\* C1: whenever MakeProtective returns without error (any initial table, any
\* sector size, any disk size that is a multiple of it, any valid protective
\* type), Check succeeds on the table and IsGPT is true.
C1_ProtectivePassesCheck ==
    (LastCall("MakeProtective") /\ err = Nil) =>
        (Check(this.bytes) = Nil /\ IsGPT(this.bytes))

\* C1 witness: MakeProtective succeeded in DiskSize mode on a disk of more than
\* 2^32 sectors, over a table that had a bad signature or other entries before.
C1_Witness ==
    /\ LastCall("MakeProtective")
    /\ err = Nil
    /\ call.args[3] = DiskSize
    /\ GtLimbs(DivLimbs(call.args[2], call.args[1]), <<0, 0, 1, 0>>)

\* C2: a MakeProtective call whose diskSize is not a multiple of sectorSize fails
\* with DiskSizeNotEvenSectors, whatever the protective type, and leaves all 512
\* bytes of the table as they were.
C2_UnevenDiskSizeLeavesTable ==
    [][(call'.name = "MakeProtective" /\ ModLimbs(call'.args[2], call'.args[1]) # 0) =>
          (/\ err' = ErrorDiskSizeNotEvenSectors
           /\ \A i \in 0..511 : this'.bytes[i] = this.bytes[i])]_vars

\* C2 witness: the call failed with DiskSizeNotEvenSectors on a table whose
\* signature is (still) invalid, with a protective type that is not valid either.
C2_Witness ==
    /\ LastCall("MakeProtective")
    /\ err = ErrorDiskSizeNotEvenSectors
    /\ call.args[3] = 3
    /\ this.bytes[510] # 85

\* a pair of distinct non-empty entries whose ranges [start, start+length) overlap
Overlap(b, x, y) ==
    /\ x # y
    /\ EntryType(b, x) # 0
    /\ EntryType(b, y) # 0
    /\ GtLimbs(EntryEnd(b, y), EntryStart(b, x))
    /\ GtLimbs(EntryEnd(b, x), EntryStart(b, y))

\* C3 (as claimed): if Check succeeds on a table, no two non-empty entries have
\* overlapping sector ranges.
C3_CheckedTableHasNoOverlap ==
    (LastCall("Check") /\ err = Nil) =>
        \A x \in Entries, y \in Entries : ~Overlap(this.bytes, x, y)

\* the last-sector rule on entry n: non-empty, start+length above 0xFFFFFFFF, and
\* not the protective exception (entry 1, type GPT, start+length = 2^32)
TooHigh(b, n) ==
    /\ EntryType(b, n) # 0
    /\ GtLimbs(EntryEnd(b, n), Max32)
    /\ ~(n = 1 /\ EntryType(b, n) = 238 /\ EntryEnd(b, n) = TwoTo32)

\* entry n starts strictly inside another non-empty entry
StartsInside(b, n) ==
    \E r \in Entries :
        /\ r # n
        /\ EntryType(b, r) # 0
        /\ GtLimbs(EntryStart(b, n), EntryStart(b, r))
        /\ GtLimbs(EntryEnd(b, r), EntryStart(b, n))

\* entry n is empty or passes every rule of the validator
EntryPasses(b, n) ==
    \/ EntryType(b, n) = 0
    \/ /\ ~TooHigh(b, n)
       /\ EntryBoot(b, n) \in {0, 128}
       /\ ~StartsInside(b, n)

\* C4: on a table with a valid signature, Check returns LastSectorTooHigh exactly
\* when the first entry it rejects is a non-empty entry whose start+length
\* (without wrap-around) exceeds 0xFFFFFFFF and that is not entry 1 of type GPT
\* with start+length = 2^32; entries 2-4, type 0xED and larger sums get no
\* exception, and empty entries are never rejected.
C4_LastSectorTooHighExactly ==
    (LastCall("Check") /\ this.bytes[510] = 85 /\ this.bytes[511] = 170) =>
        ((err = ErrorPartitionLastSectorHigh) <=>
            \E n \in Entries :
                /\ TooHigh(this.bytes, n)
                /\ \A m \in 1..(n - 1) : EntryPasses(this.bytes, m))

\* C4 witness: Check returned LastSectorTooHigh for an entry of type GPT with
\* start+length = 2^32 that is entry 2, 3 or 4.
C4_Witness ==
    /\ LastCall("Check")
    /\ err = ErrorPartitionLastSectorHigh
    /\ \E n \in 2..4 :
           /\ EntryType(this.bytes, n) = 238
           /\ EntryEnd(this.bytes, n) = TwoTo32
           /\ \A m \in 1..(n - 1) : EntryType(this.bytes, m) = 0

\* the errors a read can report about the transfer itself
TransferErrors == {"ShortRead", "EOF"}

\* C5 (as claimed): Read always returns a table, and when the source delivered
\* fewer than 512 bytes it fails with a short-read error, never with the outcome
\* of Check on the partly filled buffer.
C5_ShortReadIsReported ==
    LastCall("Read") =>
        /\ this # NilMBR
        /\ call.args[1] < 512 => err \in TransferErrors

\* C6 (as claimed): after a successful MakeProtective entry 1 has type GPT,
\* start 1, bootable byte 0, and length min(diskSize/sectorSize - 1, 0xFFFFFFFF)
\* in DiskSize mode (the subtraction taken in the integers), 0xFFFFFFFF otherwise.
C6_ProtectiveEntryOne ==
    (LastCall("MakeProtective") /\ err = Nil) =>
        LET count == Wide(DivLimbs(call.args[2], call.args[1]))
            more == DivLimbs(call.args[2], call.args[1])[3] # 0
                    \/ DivLimbs(call.args[2], call.args[1])[4] # 0
            length == EntryLen(this.bytes, 1)
        IN  /\ EntryType(this.bytes, 1) = 238
            /\ EntryStart(this.bytes, 1) = One
            /\ EntryBoot(this.bytes, 1) = 0
            /\ call.args[3] = DiskSize =>
                   IF ~more /\ ~GtLimbs(count, TwoTo32)
                   THEN AddLimbs(length, One) = count
                   ELSE length = Max32
            /\ call.args[3] # DiskSize => length = Max32

C8_ViewsStoreLittleEndian ==
    [][/\ \A f \in {<<"SetLBAStart", 8>>, <<"SetLBALen", 12>>} :
              (call'.name = f[1]) =>
                  LET n == parts[call'.args[1]].Num
                      v == call'.args[2]
                      at == 446 + 16 * (n - 1) + f[2]
                  IN  /\ \A i \in 0..3 : this'.bytes[at + i] = ByteOf(v, i)
                      /\ \A k \in 0..511 : k \notin at..(at + 3) =>
                                               this'.bytes[k] = this.bytes[k]
                      /\ \A j \in DOMAIN parts' : parts'[j].Num = n =>
                             IF f[2] = 8 THEN GetLBAStart(this'.bytes, parts'[j]) = v
                             ELSE GetLBALen(this'.bytes, parts'[j]) = v
       /\ (call'.name = "GetLBAStart") =>
              Wide(ret') = EntryStart(this'.bytes, parts'[call'.args[1]].Num)
       /\ (call'.name = "GetLBALen") =>
              Wide(ret') = EntryLen(this'.bytes, parts'[call'.args[1]].Num)]_vars

\* C8 witness: 0x04030201 read back as the length of entry 4 through the second
\* of two views of that entry, the start of the entry holding another value.
C8_Witness ==
    /\ LastCall("GetLBALen")
    /\ call.args[1] = 2
    /\ ret = <<513, 1027>>
    /\ Len(parts) = 2
    /\ parts[1].Num = 4
    /\ parts[2].Num = 4
    /\ EntryStart(this.bytes, 4) = Max32

\* C9 (as claimed): on a table that passes Check, GetLBALast on a non-empty
\* entry returns start + length - 1 and does not panic.
C9_LastSectorOfCheckedEntry ==
    (/\ LastCall("GetLBALast")
     /\ Check(this.bytes) = Nil
     /\ EntryType(this.bytes, call.args[1]) # 0) =>
        /\ ~ret.panic
        /\ AddLimbs(Wide(ret.value), One) = EntryEnd(this.bytes, call.args[1])

\* the bytes an InvalidProtectiveType failure may touch: the signature and entry
\* 1's bootable byte, type byte and start field
C10_MayChange == {510, 511, 446, 450} \cup 454..457

\* C10: MakeProtective with an even disk size and a protective type outside
\* {Default, MaxSize, DiskSize} fails with InvalidProtectiveType and changes no
\* byte other than the signature and entry 1's type, start and bootable fields.
C10_InvalidTypeFrame ==
    [][(/\ call'.name = "MakeProtective"
        /\ ModLimbs(call'.args[2], call'.args[1]) = 0
        /\ call'.args[3] \notin {DefaultProtective, MaxSize, DiskSize}) =>
          (/\ err' = ErrorInvalidProtectiveType
           /\ \A i \in 0..511 : i \notin C10_MayChange =>
                                    this'.bytes[i] = this.bytes[i])]_vars

\* C10 witness: the call failed with InvalidProtectiveType on a table whose entry
\* 1 was not a protective entry and whose entry 2 is in use.
C10_Witness ==
    /\ LastCall("MakeProtective")
    /\ err = ErrorInvalidProtectiveType
    /\ EntryLen(this.bytes, 1) # Max32
    /\ EntryType(this.bytes, 2) # 0

====
